---- MODULE Spec2Model ----
(***************************************************************************)
(* Model of the symbol table (crates/langmeantree-proc/src/symbol.rs) and  *)
(* of the field and constructor generators                                 *)
(* (crates/smodel-proc/src/processing/processing_step_3_2.rs, 3_7.rs).     *)
(***************************************************************************)
EXTENDS Integers, Sequences, FiniteSets, TLC

VARIABLES
    arena,          \* Arena::data : the Vec<Rc<Symbol1>> of the factory
    handles,        \* every Symbol (Weak<Symbol1>) handed out or cloned so far
    lastCall,       \* the last accessor call and its outcome
    aborted,        \* a panic!() / failed unwrap / failed index ended the pass
    fields,         \* meaning.fields() of every meaning: name -> FieldSlot
    field_output,   \* the #DATA::M structure fields emitted for every meaning
    method_output,  \* meaning.method_output() of every meaning
    diagnostics,    \* the diagnostics emitted so far
    declared,       \* the field declarations handed to ProcessingStep3_2::exec
    fv,             \* result of the last match_field call of define_accessors
    nodes,          \* the constructor declaration of every meaning, if any
    run             \* the execution of a generated `new`

vars == <<arena, handles, lastCall, aborted, fields, field_output,
          method_output, diagnostics, declared, fv, nodes, run>>

symVars == <<arena, handles, lastCall>>
genVars == <<fields, field_output, method_output, diagnostics, declared, fv,
             nodes, run>>

(***************************************************************************)
(* Bounds.                                                                 *)
(***************************************************************************)
MaxSymbols == 2
MaxChain == 4
MaxDecls == 3
NumMeanings == 3

NoSymbol == 0

Names == {"x"}
Addrs == 1..(MaxSymbols + 1)

(***************************************************************************)
(* symbol.rs : Arena and LmtFactory                                        *)
(***************************************************************************)
Arena_new == << >>

NoCall == [acc |-> "none", on |-> 0, ok |-> TRUE]

LiveAddrs == {arena[i].addr : i \in DOMAIN arena}

NumAllocs == Cardinality({h.alloc : h \in handles})

\* Arena::allocate: self.data.borrow_mut().push(obj.clone())
allocate(data, obj) == Append(data, obj)

\* Rc::new returns an address no live allocation occupies (addresses are only
\* compared for equality, so the lowest free one stands for any of them);
\* Rc::downgrade returns the Weak to it.
Rc_new == CHOOSE a \in Addrs \ LiveAddrs : \A b \in Addrs \ LiveAddrs : a <= b

Allocate(kind, slot) ==
    /\ ~aborted
    /\ NumAllocs < MaxSymbols
    /\ LET a == Rc_new
       IN /\ arena' = allocate(arena, [addr |-> a, kind |-> kind, slot |-> slot])
          /\ handles' = handles \cup
                  {[alloc |-> NumAllocs + 1, addr |-> a, copy |-> FALSE]}
    /\ lastCall' = NoCall
    /\ UNCHANGED <<aborted, genVars>>

create_meaning_slot ==
    \E name \in Names :
        Allocate("MeaningSlot",
                 [name |-> name, inherits |-> NoSymbol,
                  submeanings |-> << >>, methods |-> << >>])

create_field_slot ==
    \E is_ref \in BOOLEAN, name \in Names :
        Allocate("FieldSlot",
                 [name |-> name, field_type |-> "T", field_init |-> "e",
                  is_ref |-> is_ref])

create_method_slot ==
    \E name \in Names, defined_in \in handles :
        Allocate("MethodSlot",
                 [name |-> name, defined_in |-> defined_in.addr,
                  doc_attribute |-> "None",
                  override_logic_mapping |-> << >>])

(***************************************************************************)
(* symbol.rs : Symbol                                                      *)
(***************************************************************************)
\* #[derive(Clone)] : a second Weak to the same allocation
Symbol_clone ==
    /\ ~aborted
    /\ \E h \in handles :
          /\ handles' = handles \cup {[h EXCEPT !.copy = TRUE]}
          /\ lastCall' = NoCall
    /\ UNCHANGED <<arena, aborted, genVars>>

\* Equality by content: kind and name of the two symbols.
eq_by_content(self, other) ==
    LET a == {arena[i] : i \in {j \in DOMAIN arena : arena[j].addr = self.addr}}
        b == {arena[i] : i \in {j \in DOMAIN arena : arena[j].addr = other.addr}}
    IN \E s \in a, t \in b : s.kind = t.kind /\ s.slot.name = t.slot.name

\* PartialEq::eq : self.0.ptr_eq(&other.0)
eq(self, other) == self.addr = other.addr

\* Hash::hash : self.0.as_ptr().hash(state)
hash(self) == self.addr

\* access! : $symbol.0.upgrade().unwrap().as_ref()
access(symbol) ==
    LET live == {i \in DOMAIN arena : arena[i].addr = symbol.addr}
    IN IF live = {} THEN [kind |-> "Dangling", addr |-> symbol.addr]
       ELSE arena[CHOOSE i \in live : TRUE]

Ok == "ok"
Panic == "panic"

is_meaning_slot(self) == access(self).kind = "MeaningSlot"
is_field_slot(self) == access(self).kind = "FieldSlot"
is_method_slot(self) == access(self).kind = "MethodSlot"

\* name() with the MethodSlot arm missing
name_no_method(self) ==
    IF access(self).kind \in {"MeaningSlot", "FieldSlot"} THEN Ok ELSE Panic

name(self) ==
    IF access(self).kind \in {"MeaningSlot", "FieldSlot", "MethodSlot"}
    THEN Ok ELSE Panic

inherits(self) == IF access(self).kind = "MeaningSlot" THEN Ok ELSE Panic
submeanings(self) == IF access(self).kind = "MeaningSlot" THEN Ok ELSE Panic
methods(self) == IF access(self).kind = "MeaningSlot" THEN Ok ELSE Panic
field_type(self) == IF access(self).kind = "FieldSlot" THEN Ok ELSE Panic
field_init(self) == IF access(self).kind = "FieldSlot" THEN Ok ELSE Panic
is_ref(self) == IF access(self).kind = "FieldSlot" THEN Ok ELSE Panic
defined_in(self) == IF access(self).kind = "MethodSlot" THEN Ok ELSE Panic
doc_attribute(self) == IF access(self).kind = "MethodSlot" THEN Ok ELSE Panic
override_logic_mapping(self) ==
    IF access(self).kind = "MethodSlot" THEN Ok ELSE Panic

\* Deref for MeaningSlot / FieldSlot / MethodSlot : assert!(self.0.is_..._slot())
MeaningSlot_deref(self) == IF is_meaning_slot(self) THEN Ok ELSE Panic
FieldSlot_deref(self) == IF is_field_slot(self) THEN Ok ELSE Panic
MethodSlot_deref(self) == IF is_method_slot(self) THEN Ok ELSE Panic

Getters == {"name", "inherits", "submeanings", "methods", "field_type",
            "field_init", "is_ref", "defined_in", "doc_attribute",
            "override_logic_mapping", "MeaningSlot_deref", "FieldSlot_deref",
            "MethodSlot_deref"}

Outcome(acc, self) ==
    CASE acc = "name" -> name(self)
      [] acc = "inherits" -> inherits(self)
      [] acc = "submeanings" -> submeanings(self)
      [] acc = "methods" -> methods(self)
      [] acc = "field_type" -> field_type(self)
      [] acc = "field_init" -> field_init(self)
      [] acc = "is_ref" -> is_ref(self)
      [] acc = "defined_in" -> defined_in(self)
      [] acc = "doc_attribute" -> doc_attribute(self)
      [] acc = "override_logic_mapping" -> override_logic_mapping(self)
      [] acc = "MeaningSlot_deref" -> MeaningSlot_deref(self)
      [] acc = "FieldSlot_deref" -> FieldSlot_deref(self)
      [] acc = "MethodSlot_deref" -> MethodSlot_deref(self)

\* A call of one of the reading accessors on a handle.
CallAccessor ==
    /\ ~aborted
    /\ \E acc \in Getters, self \in handles :
          /\ lastCall' = [acc |-> acc, on |-> self.alloc,
                          ok |-> Outcome(acc, self) = Ok]
          /\ aborted' = (Outcome(acc, self) = Panic)
    /\ UNCHANGED <<arena, handles, genVars>>

\* slot.inherits.replace(value.map(|v| v.clone()))
replace_inherits(data, addr, value) ==
    [i \in DOMAIN data |->
        IF data[i].addr = addr
        THEN [data[i] EXCEPT !.slot.inherits = value]
        ELSE data[i]]

set_inherits ==
    /\ ~aborted
    /\ \E self \in handles, value \in {NoSymbol} \cup {h.addr : h \in handles} :
          IF access(self).kind = "MeaningSlot"
          THEN /\ arena' = replace_inherits(arena, self.addr, value)
               /\ lastCall' = [acc |-> "set_inherits", on |-> self.alloc,
                               ok |-> TRUE]
               /\ UNCHANGED aborted
          ELSE /\ aborted' = TRUE
               /\ lastCall' = [acc |-> "set_inherits", on |-> self.alloc,
                               ok |-> FALSE]
               /\ UNCHANGED arena
    /\ UNCHANGED <<handles, genVars>>


(***************************************************************************)
(* The hierarchy the generators run on: the meanings 1..MaxChain, each      *)
(* inheriting the one before it, the first one being the root.              *)
(***************************************************************************)
MeaningNames == <<"A", "B", "C", "D", "E", "F", "G">>
MeaningName(m) == MeaningNames[m]

\* meaning.inherits() of the hierarchy's meanings
InheritsOf(m) == IF m = 1 THEN NoSymbol ELSE m - 1

\* the asc_meaning_list argument: [root, ..., parent(m), m]
AscMeaningList(m) == [i \in 1..m |-> i]

FieldNames == {"x", "y"}

(***************************************************************************)
(* processing_step_3_2.rs                                                   *)
(***************************************************************************)
\* meaning.fields().has(&name)
fields_has(map, field_name) == \E s \in map : s.name = field_name

\* meaning.fields().set(name, slot)
fields_set(map, slot) == {s \in map : s.name # slot.name} \cup {slot}

PanicResult == [panic |-> TRUE, unwraps |-> << >>, base |-> "", field |-> ""]

\* ProcessingStep3_2::match_field.  meaning_index counts from 0 as in the
\* source; asc_meaning_list[k] of the source is asc_meaning_list[k + 1] here.
\* An index past the end of the slice panics.
RECURSIVE match_field(_, _, _, _)
match_field(asc_meaning_list, meaning_index, base, field_name) ==
    LET len == Len(asc_meaning_list)
        inherited_is_some == ~(len - meaning_index = 1)
        at == meaning_index + (IF inherited_is_some THEN 1 ELSE 0)
    IN IF meaning_index > len THEN PanicResult
       ELSE IF inherited_is_some /\ meaning_index >= len THEN PanicResult
       ELSE IF at >= len THEN PanicResult
       ELSE LET meaning == asc_meaning_list[at + 1]
                inherited == InheritsOf(meaning)
            IN IF inherited = NoSymbol
               THEN [panic |-> FALSE, unwraps |-> << >>, base |-> base,
                     field |-> field_name]
               ELSE LET inner == match_field(asc_meaning_list,
                                             meaning_index + 1, "o", field_name)
                    IN IF inner.panic THEN PanicResult
                       ELSE [inner EXCEPT !.unwraps =
                               <<[enum |-> MeaningName(inherited),
                                  variant |-> MeaningName(meaning),
                                  base |-> base]>> \o inner.unwraps]

\* ProcessingStep3_2::define_accessors: the getter/setter pair over fv
define_accessors(slot, r) ==
    IF slot.is_ref
    THEN <<[fn |-> <<slot.name>>, fv |-> r, op |-> "borrow().clone()"],
           [fn |-> <<"set_", slot.name>>, fv |-> r, op |-> "replace(v)"]>>
    ELSE <<[fn |-> <<slot.name>>, fv |-> r, op |-> "get()"],
           [fn |-> <<"set_", slot.name>>, fv |-> r, op |-> "set(v)"]>>

\* the field contributed to the #DATA::M structure
data_field(slot) ==
    [name |-> slot.name,
     cell |-> IF slot.is_ref THEN "RefCell" ELSE "Cell",
     type |-> slot.field_type]

\* no generated `new` is executing
NoRun == [active |-> FALSE, m |-> 0, pc |-> 0, cto1 |-> << >>, log |-> << >>,
          trace |-> << >>, returned |-> FALSE]

NoFv == [called |-> FALSE, meaning |-> 0, field_name |-> "", result |-> PanicResult]

\* ProcessingStep3_2::exec on one field declaration of one meaning
Exec3_2 ==
    /\ ~aborted
    /\ Len(declared) < MaxDecls
    /\ \E meaning \in 1..MaxChain, field_name \in FieldNames,
          field_is_ref \in BOOLEAN :
        LET slot == [name |-> field_name, is_ref |-> field_is_ref,
                     field_type |-> "T", field_init |-> "e"]
            r == match_field(AscMeaningList(meaning), 0,
                             "base.upgrade().unwrap()", field_name)
        IN /\ declared' = Append(declared, [meaning |-> meaning, slot |-> slot])
           /\ IF fields_has(fields[meaning], slot.name)
              THEN /\ diagnostics' = Append(diagnostics,
                          [meaning |-> meaning, message |-> "Redefining",
                           name |-> slot.name])
                   /\ UNCHANGED <<fields, field_output, method_output, fv, aborted>>
              ELSE /\ fields' = [fields EXCEPT
                                   ![meaning] = fields_set(fields[meaning], slot)]
                   /\ field_output' = [field_output EXCEPT
                                   ![meaning] = Append(@, data_field(slot))]
                   /\ fv' = [called |-> TRUE, meaning |-> meaning,
                             field_name |-> field_name, result |-> r]
                   /\ aborted' = r.panic
                   /\ method_output' =
                         IF r.panic THEN method_output
                         ELSE [method_output EXCEPT
                                 ![meaning] = @ \o define_accessors(slot, r)]
                   /\ UNCHANGED diagnostics
    /\ UNCHANGED <<symVars, nodes, run>>

InitSymIdle ==
    /\ arena = Arena_new
    /\ handles = {}
    /\ lastCall = NoCall
    /\ aborted = FALSE

InitField ==
    /\ InitSymIdle
    /\ fields = [m \in 1..MaxChain |-> {}]
    /\ field_output = [m \in 1..MaxChain |-> << >>]
    /\ method_output = [m \in 1..MaxChain |-> << >>]
    /\ diagnostics = << >>
    /\ declared = << >>
    /\ fv = NoFv
    /\ nodes = << >>
    /\ run = NoRun

NextField == Exec3_2

SpecField == InitField /\ [][NextField]_vars

(***************************************************************************)
(* processing_step_3_7.rs                                                   *)
(***************************************************************************)
\* init_data whose test for a further layer is off by one
RECURSIVE init_data_short(_, _)
init_data_short(asc_meaning_list, meaning_index) ==
    LET meaning == asc_meaning_list[meaning_index + 1]
        more == meaning_index + 2 < Len(asc_meaning_list)
    IN [meaning |-> MeaningName(meaning),
        fields |-> {[name |-> f.name,
                     cell |-> IF f.is_ref THEN "RefCell" ELSE "Cell",
                     init |-> f.field_init] : f \in fields[meaning]},
        variant |->
            [enum |-> MeaningName(meaning),
             tag |-> IF more THEN MeaningName(asc_meaning_list[meaning_index + 2])
                     ELSE "NoSubmeaning",
             inner |-> IF more
                       THEN <<init_data_short(asc_meaning_list, meaning_index + 1)>>
                       ELSE << >>]]

\* ProcessingStep3_7::init_data.  meaning_index counts from 0 as in the
\* source.  `inner` holds the Rc::new(...) payload of the variant, if any.
RECURSIVE init_data(_, _)
init_data(asc_meaning_list, meaning_index) ==
    LET meaning == asc_meaning_list[meaning_index + 1]
        more == meaning_index + 1 < Len(asc_meaning_list)
    IN [meaning |-> MeaningName(meaning),
        fields |-> {[name |-> f.name,
                     cell |-> IF f.is_ref THEN "RefCell" ELSE "Cell",
                     init |-> f.field_init] : f \in fields[meaning]},
        variant |->
            [enum |-> MeaningName(meaning),
             tag |-> IF more THEN MeaningName(asc_meaning_list[meaning_index + 2])
                     ELSE "NoSubmeaning",
             inner |-> IF more
                       THEN <<init_data(asc_meaning_list, meaning_index + 1)>>
                       ELSE << >>]]

\* node: Option<&MeaningConstructor>
NoNode == [declared |-> FALSE, inputs |-> << >>, super_arguments |-> << >>,
           statements |-> << >>]
SomeNode == [declared |-> TRUE, inputs |-> <<[name |-> "v", type |-> "T"]>>,
             super_arguments |-> <<"v">>, statements |-> <<"log">>]

\* convert_function_input_to_arguments: the names of the parameters
convert_function_input_to_arguments(input) ==
    [i \in DOMAIN input |-> input[i].name]

Stmt(op, recv, target, args, layers) ==
    [op |-> op, recv |-> recv, target |-> target, args |-> args,
     layers |-> layers]

\* the fn __ctor emitted by exec (lines 25-31)
ctor_init(node) ==
    [fn |-> "__ctor", params |-> node.inputs, body |-> node.statements]

\* m_new_out that calls the own initializer before the parent's
m_new_out_own_first(node, meaning, asc_meaning_list) ==
    <<Stmt("let", "__cto1", "", << >>, <<init_data(asc_meaning_list, 0)>>)>>
    \o <<Stmt("call", "__cto1", MeaningName(meaning),
              convert_function_input_to_arguments(node.inputs), << >>)>>
    \o (IF InheritsOf(meaning) # NoSymbol
        THEN <<Stmt("call", "__cto1.0", MeaningName(InheritsOf(meaning)),
                    node.super_arguments, << >>)>>
        ELSE << >>)
    \o <<Stmt("return", "__cto1", "", << >>, << >>)>>

\* the body of M::new built by exec (lines 33-63)
m_new_out(node, meaning, asc_meaning_list) ==
    <<Stmt("let", "__cto1", "", << >>, <<init_data(asc_meaning_list, 0)>>)>>
    \o (IF InheritsOf(meaning) # NoSymbol
        THEN <<Stmt("call", "__cto1.0", MeaningName(InheritsOf(meaning)),
                    node.super_arguments, << >>)>>
        ELSE << >>)
    \o <<Stmt("call", "__cto1", MeaningName(meaning),
              convert_function_input_to_arguments(node.inputs), << >>)>>
    \o <<Stmt("return", "__cto1", "", << >>, << >>)>>

\* ProcessingStep3_7::exec for one meaning
Exec3_7 ==
    \E meaning \in 1..NumMeanings :
        /\ method_output[meaning] = << >>
        /\ method_output' = [method_output EXCEPT ![meaning] =
              <<ctor_init(nodes[meaning]),
                [fn |-> "new",
                 params |-> <<[name |-> "arena", type |-> "Arena"]>>
                            \o nodes[meaning].inputs,
                 body |-> m_new_out(nodes[meaning], meaning,
                                    AscMeaningList(meaning))]>>]
        /\ UNCHANGED <<symVars, aborted, fields, field_output, diagnostics,
                       declared, fv, nodes, run>>

(***************************************************************************)
(* Execution of the generated code: M::new(arena, ...) of one meaning.      *)
(***************************************************************************)
Generated == \A m \in 1..NumMeanings : method_output[m] # << >>

NewBody(m) == method_output[m][2].body

MeaningOfName(n) == CHOOSE m \in 1..NumMeanings : MeaningName(m) = n

CallNew ==
    /\ Generated
    /\ ~run.active \/ run.returned
    /\ \E m \in 1..NumMeanings :
          run' = [NoRun EXCEPT !.active = TRUE, !.m = m, !.pc = 1]
    /\ UNCHANGED <<symVars, aborted, fields, field_output, method_output,
                   diagnostics, declared, fv, nodes>>

Running == run.active /\ ~run.returned /\ run.pc <= Len(NewBody(run.m))

\* let __cto1 = <the layered allocation>;
RunLet ==
    /\ Running
    /\ NewBody(run.m)[run.pc].op = "let"
    /\ run' = [run EXCEPT !.cto1 = NewBody(run.m)[run.pc].layers,
                          !.pc = @ + 1,
                          !.trace = Append(@, "alloc")]
    /\ UNCHANGED <<symVars, aborted, fields, field_output, method_output,
                   diagnostics, declared, fv, nodes>>

\* X::__ctor(&__cto1.0, ...) or __cto1.__ctor(...): the body of X's __ctor
RunCtor ==
    /\ Running
    /\ NewBody(run.m)[run.pc].op = "call"
    /\ LET target == NewBody(run.m)[run.pc].target
           body == method_output[MeaningOfName(target)][1].body
       IN run' = [run EXCEPT
                    !.log = @ \o [i \in DOMAIN body |-> target],
                    !.pc = @ + 1,
                    !.trace = Append(@, target)]
    /\ UNCHANGED <<symVars, aborted, fields, field_output, method_output,
                   diagnostics, declared, fv, nodes>>

\* __cto1
RunReturn ==
    /\ Running
    /\ NewBody(run.m)[run.pc].op = "return"
    /\ run' = [run EXCEPT !.returned = TRUE, !.trace = Append(@, "return")]
    /\ UNCHANGED <<symVars, aborted, fields, field_output, method_output,
                   diagnostics, declared, fv, nodes>>

SlotXValue == [name |-> "x", is_ref |-> FALSE, field_type |-> "T", field_init |-> "ex"]
SlotXRef == [name |-> "x", is_ref |-> TRUE, field_type |-> "T", field_init |-> "ex"]
SlotYValue == [name |-> "y", is_ref |-> FALSE, field_type |-> "T", field_init |-> "ey"]

FieldSets == {{}, {SlotXValue}, {SlotXRef, SlotYValue}}

InitCtor ==
    /\ InitSymIdle
    /\ fields \in [1..NumMeanings -> FieldSets]
    /\ nodes \in [1..NumMeanings -> {NoNode, SomeNode}]
    /\ field_output = << >>
    /\ method_output = [m \in 1..NumMeanings |-> << >>]
    /\ diagnostics = << >>
    /\ declared = << >>
    /\ fv = NoFv
    /\ run = NoRun

NextCtor ==
    \/ Exec3_7
    \/ CallNew
    \/ RunLet
    \/ RunCtor
    \/ RunReturn

SpecCtor == InitCtor /\ [][NextCtor]_vars

InitGenIdle ==
    /\ fields = << >>
    /\ field_output = << >>
    /\ method_output = << >>
    /\ diagnostics = << >>
    /\ declared = << >>
    /\ fv = NoFv
    /\ nodes = << >>
    /\ run = NoRun

Init ==
    /\ arena = Arena_new
    /\ handles = {}
    /\ lastCall = NoCall
    /\ aborted = FALSE
    /\ InitGenIdle

Next ==
    \/ create_meaning_slot
    \/ create_field_slot
    \/ create_method_slot
    \/ Symbol_clone
    \/ CallAccessor
    \/ set_inherits

Spec == Init /\ [][Next]_vars

(***************************************************************************)
(* Claims about the symbol table.                                          *)
(***************************************************************************)
SameContent(i, j) == arena[i].kind = arena[j].kind /\ arena[i].slot = arena[j].slot

\* C6: two handles are equal, and hash identically, exactly when they come
\* from the same allocation, whatever the content of the symbols; the arena
\* keeps every allocation, so every handle still resolves to the symbol of
\* its own allocation and to no other.
C6_SymbolIdentity ==
    /\ \A h1 \in handles, h2 \in handles :
          /\ eq(h1, h2) <=> h1.alloc = h2.alloc
          /\ h1.alloc = h2.alloc => hash(h1) = hash(h2)
    /\ Len(arena) = NumAllocs
    /\ \A h \in handles :
          /\ h.alloc \in DOMAIN arena
          /\ access(h).kind # "Dangling"
          /\ \A i \in DOMAIN arena : arena[i].addr = h.addr <=> i = h.alloc

\* Two allocations of identical kind and content, one of them cloned.
C6_Witness ==
    \E h1 \in handles, h2 \in handles, h3 \in handles :
        /\ h1.alloc # h2.alloc
        /\ h1.alloc \in DOMAIN arena /\ h2.alloc \in DOMAIN arena
        /\ SameContent(h1.alloc, h2.alloc)
        /\ h3.alloc = h1.alloc /\ h3.copy /\ ~h1.copy

RECURSIVE ReachesRoot(_, _)
ReachesRoot(a, fuel) ==
    LET s == access([addr |-> a])
    IN IF s.kind # "MeaningSlot" THEN FALSE
       ELSE IF s.slot.inherits = NoSymbol THEN TRUE
       ELSE IF fuel = 0 THEN FALSE
       ELSE ReachesRoot(s.slot.inherits, fuel - 1)

\* C7: following inherits() from any meaning reaches a meaning with no
\* parent without revisiting a meaning.
C7_InheritsAcyclic ==
    \A i \in DOMAIN arena :
        arena[i].kind = "MeaningSlot" => ReachesRoot(arena[i].addr, Len(arena))

AllowedKinds(acc) ==
    CASE acc \in {"inherits", "set_inherits", "submeanings", "methods",
                  "MeaningSlot_deref"} -> {"MeaningSlot"}
      [] acc \in {"field_type", "field_init", "is_ref", "FieldSlot_deref"}
            -> {"FieldSlot"}
      [] acc \in {"defined_in", "doc_attribute", "override_logic_mapping",
                  "MethodSlot_deref"} -> {"MethodSlot"}
      [] acc = "name" -> {"MeaningSlot", "FieldSlot", "MethodSlot"}

C8_Outcome ==
    lastCall.acc # "none" =>
        /\ lastCall.ok <=> arena[lastCall.on].kind \in AllowedKinds(lastCall.acc)
        /\ aborted <=> ~lastCall.ok

C8_FaultKeepsTable ==
    (aborted' /\ ~aborted) => (arena' = arena /\ handles' = handles)

\* C8: an accessor returns normally exactly on a symbol of its own kind and
\* panics on every other kind; the panicking call leaves the symbol table
\* as it was.
C8_KindChecked == []C8_Outcome /\ [][C8_FaultKeepsTable]_vars

\* set_inherits has panicked on a field symbol.
C8_Witness ==
    /\ aborted
    /\ lastCall.acc = "set_inherits"
    /\ arena[lastCall.on].kind = "FieldSlot"

(***************************************************************************)
(* Claims about the field and constructor generators.                      *)
(***************************************************************************)
RECURSIVE Depth(_)
Depth(d) == IF d.variant.inner = << >> THEN 1 ELSE 1 + Depth(d.variant.inner[1])

RECURSIVE LayerAt(_, _)
LayerAt(d, i) == IF i = 1 THEN d ELSE LayerAt(d.variant.inner[1], i - 1)

\* C1: with a logging constructor on each of A, B and C, C::new leaves the
\* log [A, B, C].
C1_CtorOrder ==
    (/\ run.active /\ run.returned /\ run.m = 3
     /\ \A m \in 1..3 : nodes[m].declared)
    => run.log = <<"A", "B", "C">>

ExpectedTrace(m) ==
    <<"alloc">>
    \o (IF InheritsOf(m) # NoSymbol THEN <<MeaningName(InheritsOf(m))>> ELSE << >>)
    \o <<MeaningName(m), "return">>

C2_Generated(m) ==
    LET ctor == method_output[m][1]
        new == method_output[m][2]
        body == new.body
        n == Len(body)
    IN /\ ctor.fn = "__ctor" /\ new.fn = "new"
       /\ ~nodes[m].declared =>
             /\ ctor.params = << >> /\ ctor.body = << >>
             /\ Len(new.params) = 1
       /\ n = IF InheritsOf(m) # NoSymbol THEN 4 ELSE 3
       /\ body[1].op = "let" /\ Depth(body[1].layers[1]) = m
       /\ InheritsOf(m) # NoSymbol =>
             /\ body[2].op = "call" /\ body[2].recv = "__cto1.0"
             /\ body[2].target = MeaningName(InheritsOf(m))
       /\ body[n - 1].op = "call" /\ body[n - 1].recv = "__cto1"
       /\ body[n - 1].target = MeaningName(m)
       /\ body[n - 1].args = [i \in DOMAIN nodes[m].inputs |-> nodes[m].inputs[i].name]
       /\ body[n].op = "return"

\* C2: every generated `new` allocates the whole layered storage first,
\* then calls the parent's __ctor exactly when the meaning inherits, then
\* its own __ctor with the input arguments, then returns __cto1; no __ctor
\* runs before the storage is complete; a meaning without a declared
\* constructor gets a no-argument __ctor and `new` of the same shape.
C2_FactoryOrder ==
    /\ \A m \in DOMAIN method_output :
          method_output[m] # << >> => C2_Generated(m)
    /\ run.active =>
          /\ Len(run.trace) <= Len(ExpectedTrace(run.m))
          /\ run.trace = SubSeq(ExpectedTrace(run.m), 1, Len(run.trace))
          /\ run.cto1 = << >> => (run.trace = << >> /\ run.log = << >>)
          /\ run.trace # << >> =>
                (Len(run.cto1) = 1 /\ Depth(run.cto1[1]) = run.m)
          /\ run.returned => run.trace = ExpectedTrace(run.m)

\* `new` of a meaning that inherits and declares no constructor has returned.
C2_Witness ==
    /\ run.active /\ run.returned
    /\ InheritsOf(run.m) # NoSymbol
    /\ ~nodes[run.m].declared
    /\ Len(run.trace) = 4

ExpectedFields(m) ==
    {[name |-> f.name, cell |-> IF f.is_ref THEN "RefCell" ELSE "Cell",
      init |-> f.field_init] : f \in fields[m]}

\* C10: init_data at index 0 yields one layer per meaning of the list, root
\* first; layer i holds exactly the fields of the i-th meaning with their
\* defaults, in a RefCell when is_ref and in a Cell otherwise; every layer
\* but the last is tagged with the next meaning and wraps the next layer,
\* and only the last layer carries the no-submeaning tag.
C10_InitData ==
    \A m \in DOMAIN method_output :
        method_output[m] # << >> =>
            LET d == method_output[m][2].body[1].layers[1]
            IN /\ Depth(d) = m
               /\ \A i \in 1..m :
                     LET layer == LayerAt(d, i)
                     IN /\ layer.meaning = MeaningName(i)
                        /\ layer.fields = ExpectedFields(i)
                        /\ layer.variant.enum = MeaningName(i)
                        /\ i < m => /\ layer.variant.tag = MeaningName(i + 1)
                                    /\ Len(layer.variant.inner) = 1
                        /\ i = m => /\ layer.variant.tag = "NoSubmeaning"
                                    /\ layer.variant.inner = << >>

\* the layers of a three-meaning chain with by-reference and by-value fields
C10_Witness ==
    /\ method_output[3] # << >>
    /\ fields[1] = {SlotXRef, SlotYValue}
    /\ fields[2] = {SlotXValue}
    /\ Depth(method_output[3][2].body[1].layers[1]) = 3

FirstDeclared(m, field_name) ==
    LET idx == {i \in DOMAIN declared :
                  declared[i].meaning = m /\ declared[i].slot.name = field_name}
    IN declared[CHOOSE i \in idx : \A j \in idx : i <= j].slot

\* C3: a declaration of a name the meaning already has emits one diagnostic
\* and changes nothing else; a declaration of a fresh name adds one field
\* entry, one storage cell and one getter/setter pair and no diagnostic.
\* So each declared name has one entry, the first declared, with its cell
\* and its accessor pair, and there is one diagnostic per duplicate.
C3_FieldContribution ==
    \A m \in DOMAIN fields :
        LET decls == {i \in DOMAIN declared : declared[i].meaning = m}
            names == {declared[i].slot.name : i \in decls}
            diags == {i \in DOMAIN diagnostics : diagnostics[i].meaning = m}
        IN /\ {f.name : f \in fields[m]} = names
           /\ Cardinality(fields[m]) = Cardinality(names)
           /\ \A f \in fields[m] : f = FirstDeclared(m, f.name)
           /\ Len(field_output[m]) = Cardinality(names)
           /\ Len(method_output[m]) = 2 * Cardinality(names)
           /\ Cardinality(diags) = Cardinality(decls) - Cardinality(names)

\* C4: match_field at position 0 of an ascending list returns, without a
\* panic or an index past the end, the direct access to the field.
C4_MatchFieldTerminates ==
    fv.called => (~fv.result.panic /\ fv.result.field = fv.field_name)

\* C5: in the chain [root, A, B, C] (the meanings 1..4 here) the traversal
\* for a field of A makes two unwrap steps and the traversal for a field of
\* C makes none.
C5_UnwrapSteps ==
    fv.called =>
        /\ fv.meaning = 2 => (~fv.result.panic /\ Len(fv.result.unwraps) = 2)
        /\ fv.meaning = 4 => (~fv.result.panic /\ Len(fv.result.unwraps) = 0)

\* C9: the traversal is generated, and the tag it matches at step i is the
\* tag init_data stores in layer i of the same list.
C9_TagsAgree ==
    fv.called =>
        /\ ~fv.result.panic
        /\ \A i \in DOMAIN fv.result.unwraps :
              LET layer == LayerAt(init_data(AscMeaningList(fv.meaning), 0), i)
              IN /\ fv.result.unwraps[i].enum = layer.variant.enum
                 /\ fv.result.unwraps[i].variant = layer.variant.tag

====
